---- MODULE Spec2Model ----
(***************************************************************************)
(* The spin-box progression: one <spin-box> instance in one of its four    *)
(* variants, the host's lifecycle callbacks, the value property, the       *)
(* observed value attribute, the three shadow-tree listeners and the       *)
(* render pass.                                                            *)
(*                                                                         *)
(*   "handrolled"  1/index.html   (plain custom element)                   *)
(*   "template"    3/index.html   (ShadowTemplateMixin)                    *)
(*   "reactive"    4/index.html   (ReactiveMixin + ShadowTemplateMixin)    *)
(*   "custom"      12/CustomSpinBox.js (themed subclass of SpinBox)        *)
(*                                                                         *)
(* lib/core/ReactiveMixin.js, lib/core/ShadowTemplateMixin.js and          *)
(* 12/SpinBox.js are not part of the sources at hand; their operators      *)
(* follow the written specification of the repository.                     *)
(***************************************************************************)
EXTENDS Integers, Sequences, FiniteSets, TLC

\* ------------------------------------------------------------------------
\* Bounds of the exploration
\* ------------------------------------------------------------------------

\* external operations (script statements and user events) per behaviour
MaxOps == 5

\* ------------------------------------------------------------------------
\* JavaScript values and text
\* ------------------------------------------------------------------------

\* A JavaScript value: a number, NaN, a string (sequence of characters) or
\* an object reference.
Num(n) == [t |-> "num", n |-> n, s |-> <<>>]
NaN == [t |-> "nan", n |-> 0, s |-> <<>>]
Str(s) == [t |-> "str", n |-> 0, s |-> s]
Ref(name) == [t |-> "ref", n |-> 0, s |-> name]

DigitChars == <<"0", "1", "2", "3", "4", "5", "6", "7", "8", "9">>

IsDigit(c) == \E i \in 1..10 : DigitChars[i] = c

DigitVal(c) == (CHOOSE i \in 1..10 : DigitChars[i] = c) - 1

\* decimal digits of a natural number
RECURSIVE NatText(_)
NatText(n) ==
  IF n < 10 THEN <<DigitChars[n + 1]>>
  ELSE NatText(n \div 10) \o <<DigitChars[(n % 10) + 1]>>

\* String(v): what assigning v to input.value stores
ToText(v) ==
  CASE v.t = "num" -> IF v.n < 0 THEN <<"-">> \o NatText(0 - v.n) ELSE NatText(v.n)
    [] v.t = "nan" -> <<"N", "a", "N">>
    [] v.t = "str" -> v.s
    [] OTHER -> <<"[", "o", "b", "j", "]">>

RECURSIVE SkipSpaces(_)
SkipSpaces(s) ==
  IF s # <<>> /\ Head(s) = " " THEN SkipSpaces(Tail(s)) ELSE s

RECURSIVE DropTrailingSpaces(_)
DropTrailingSpaces(s) ==
  IF s # <<>> /\ s[Len(s)] = " "
  THEN DropTrailingSpaces(SubSeq(s, 1, Len(s) - 1))
  ELSE s

\* the longest prefix of s made of digits
RECURSIVE DigitPrefix(_)
DigitPrefix(s) ==
  IF s # <<>> /\ IsDigit(Head(s)) THEN <<Head(s)>> \o DigitPrefix(Tail(s)) ELSE <<>>

\* value of a sequence of digits
RECURSIVE DigitsValue(_)
DigitsValue(s) ==
  IF s = <<>> THEN 0
  ELSE 10 * DigitsValue(SubSeq(s, 1, Len(s) - 1)) + DigitVal(s[Len(s)])

HasSign(s) == s # <<>> /\ Head(s) \in {"-", "+"}

Unsigned(s) == IF HasSign(s) THEN Tail(s) ELSE s

Signed(s, n) == IF s # <<>> /\ Head(s) = "-" THEN 0 - n ELSE n

\* parseInt(text): leading white space, an optional sign, then the longest
\* run of digits; NaN when there is no digit
ParseIntText(text) ==
  LET s == SkipSpaces(text)
      d == DigitPrefix(Unsigned(s))
  IN IF d = <<>> THEN NaN ELSE Num(Signed(s, DigitsValue(d)))

\* parseInt(v) converts its argument to a string first
parseInt(v) == ParseIntText(ToText(v))

\* Number(text): trimmed; the empty string is 0; an optional sign and digits
\* only, anything else is NaN
StringToNumber(text) ==
  LET s == DropTrailingSpaces(SkipSpaces(text))
      u == Unsigned(s)
  IN IF s = <<>> THEN Num(0)
     ELSE IF u # <<>> /\ DigitPrefix(u) = u THEN Num(Signed(s, DigitsValue(u)))
     ELSE NaN

\* ToNumeric(v), applied by ++ and -- to the value read from the getter
ToNumeric(v) ==
  CASE v.t = "num" -> v
    [] v.t = "str" -> StringToNumber(v.s)
    [] OTHER -> NaN

\* v + k in JavaScript arithmetic on an already numeric v: NaN is absorbing
Plus(v, k) == IF v.t = "num" THEN Num(v.n + k) ELSE NaN

\* v < 0 on a numeric v: false for NaN
LessThanZero(v) == v.t = "num" /\ v.n < 0

\* ------------------------------------------------------------------------
\* State
\* ------------------------------------------------------------------------

VARIABLES
  variant,          \* which spin box class the instance is
  lifecycle,        \* "unattached", "attached" or "detached"
  state,            \* _value (handrolled, template) or this[state]
  dom,              \* the shadow tree, its listeners and the host's style
  changed,          \* fields changed since the last completed render
  renderScheduled,  \* a render pass is queued for the end of the turn
  firstRender,      \* this[firstRender]: "undefined", "true" or "false"
  rendering,        \* this[rendering]
  pc,               \* position in a reactive pass: "idle", "render", "rendered"
  threw,            \* the last operation ended in a TypeError
  phase,            \* "quiet", "script" (a turn is running) or "drain"
  opCount,          \* external operations so far
  renderCount,      \* render passes run so far
  renderedCount,    \* invocations of the rendered hook so far
  passFirst,        \* first-render flag seen by the latest pass
  passChanged,      \* change set seen by the latest reactive pass
  passState,        \* snapshot seen by the latest pass
  attaches,         \* connectedCallback invocations so far
  turn,             \* bookkeeping of the current (or last) turn
  lastOp            \* the latest external operation

vars ==
  <<variant, lifecycle, state, dom, changed, renderScheduled, firstRender,
    rendering, pc, threw, phase, opCount, renderCount, renderedCount,
    passFirst, passChanged, passState, attaches, turn, lastOp>>

Variants == {"handrolled", "template", "reactive", "custom"}

Reactive == variant \in {"reactive", "custom"}

\* values a script assigns to the value property
WriteVals == {Num(0 - 3), Num(0), Num(3), NaN}

\* strings the value attribute is set to
AttrTexts == {<<"5">>, <<"a", "b", "c">>, <<"-", "3">>, <<" ", "7", "x">>}

\* texts the user leaves in the input field
EditTexts == {<<"5">>, <<"a", "b", "c">>, <<"-", "1">>, <<>>}

\* ------------------------------------------------------------------------
\* Default state
\* ------------------------------------------------------------------------

\* { ...a, ...b }
Merge(a, b) ==
  [k \in (DOMAIN a) \cup (DOMAIN b) |-> IF k \in DOMAIN b THEN b[k] ELSE a[k]]

\* the fields of next that differ from prev
FieldsChanged(prev, next) ==
  {k \in DOMAIN next : k \notin DOMAIN prev \/ prev[k] # next[k]}

\* ReactiveMixin's own default state: no fields
ReactiveDefaultState == <<>>

\* 4/index.html: { ...super[defaultState], value: 0 }
DefaultState04 == Merge(ReactiveDefaultState, [value |-> Num(0)])

\* 12/SpinBox.js: a numeric value field, default 0
DefaultState12 == Merge(ReactiveDefaultState, [value |-> Num(0)])

\* a default state that forgets the defaults of the layer below
DefaultStateCustomAlone == [buttonPartType |-> Ref(<<"CustomButton">>)]

\* 12/CustomSpinBox.js: { ...super[defaultState], buttonPartType: CustomButton }
DefaultStateCustom ==
  Merge(DefaultState12, [buttonPartType |-> Ref(<<"CustomButton">>)])

\* the constructors of 1/ and 3/: this._value = 0
Constructor == [value |-> Num(0)]

InitialState(v) ==
  CASE v = "reactive" -> DefaultState04
    [] v = "custom" -> DefaultStateCustom
    [] OTHER -> Constructor

\* ------------------------------------------------------------------------
\* The shadow tree
\* ------------------------------------------------------------------------

NoDom ==
  [shadowRoot |-> FALSE, clones |-> 0, onInput |-> 0, onDown |-> 0,
   onUp |-> 0, inputValue |-> <<>>, borderColor |-> "",
   backgroundColor |-> ""]

\* attachShadow, importNode(template.content), appendChild: a fresh clone,
\* whose input is empty
PopulateShadowRoot(d) ==
  [d EXCEPT !.shadowRoot = TRUE, !.clones = @ + 1, !.inputValue = <<>>]

\* the three addEventListener calls
WireListeners(d) ==
  [d EXCEPT !.onInput = @ + 1, !.onDown = @ + 1, !.onUp = @ + 1]

\* ShadowTemplateMixin's render: creates and populates the root unless the
\* instance already has one
ShadowTemplateRender(d) ==
  IF d.shadowRoot THEN d ELSE PopulateShadowRoot(d)

\* ------------------------------------------------------------------------
\* The instance as a record, so that a handler can call another
\* ------------------------------------------------------------------------

Cur ==
  [state |-> state, dom |-> dom, changed |-> changed,
   renderScheduled |-> renderScheduled, threw |-> threw,
   renderCount |-> renderCount, passFirst |-> passFirst,
   passChanged |-> passChanged, passState |-> passState]

Install(m) ==
  /\ state' = m.state
  /\ dom' = m.dom
  /\ changed' = m.changed
  /\ renderScheduled' = m.renderScheduled
  /\ threw' = m.threw
  /\ renderCount' = m.renderCount
  /\ passFirst' = m.passFirst
  /\ passChanged' = m.passChanged
  /\ passState' = m.passState

\* ------------------------------------------------------------------------
\* 1/index.html: the hand-rolled spin box
\* ------------------------------------------------------------------------

\* a setter that ignores writes on a detached instance
SetValue01Connected(m, v) ==
  IF lifecycle = "detached"
  THEN [m EXCEPT !.threw = FALSE]
  ELSE LET m1 == [m EXCEPT !.state = [m.state EXCEPT !.value = v]]
       IN IF m.dom.shadowRoot
          THEN [m1 EXCEPT !.dom = [m.dom EXCEPT !.inputValue = ToText(v)],
                          !.threw = FALSE]
          ELSE [m1 EXCEPT !.threw = TRUE]

\* set value(value): store, then write the input of the shadow root; without
\* a shadow root this.shadowRoot is null and getElementById throws
SetValue01(m, v) ==
  LET m1 == [m EXCEPT !.state = [m.state EXCEPT !.value = v]]
  IN IF m.dom.shadowRoot
     THEN [m1 EXCEPT !.dom = [m.dom EXCEPT !.inputValue = ToText(v)],
                     !.threw = FALSE]
     ELSE [m1 EXCEPT !.threw = TRUE]

\* a connectedCallback that wires the listeners on every attach
ConnectedCallback01Rewire(m) ==
  LET d1 == IF ~m.dom.shadowRoot THEN PopulateShadowRoot(m.dom) ELSE m.dom
      d2 == WireListeners(d1)
  IN [m EXCEPT !.dom = [d2 EXCEPT !.inputValue = ToText(m.state.value)],
               !.threw = FALSE]

\* connectedCallback()
ConnectedCallback01(m) ==
  LET d1 == IF ~m.dom.shadowRoot
            THEN WireListeners(PopulateShadowRoot(m.dom))
            ELSE m.dom
  IN [m EXCEPT !.dom = [d1 EXCEPT !.inputValue = ToText(m.state.value)],
               !.threw = FALSE]

\* ------------------------------------------------------------------------
\* 3/index.html: the spin box on ShadowTemplateMixin
\* ------------------------------------------------------------------------

\* a render that looks for the shadow root after the mixin has created it
Render03Late(m) ==
  LET d1 == ShadowTemplateRender(m.dom)
      first == ~d1.shadowRoot
      d2 == IF first THEN WireListeners(d1) ELSE d1
  IN [m EXCEPT !.dom = [d2 EXCEPT !.inputValue = ToText(m.state.value)],
               !.renderCount = @ + 1,
               !.passFirst = first,
               !.passState = m.state,
               !.threw = FALSE]

\* [render](): a render pass, synchronous
Render03(m) ==
  LET first == ~m.dom.shadowRoot
      d1 == ShadowTemplateRender(m.dom)
      d2 == IF first THEN WireListeners(d1) ELSE d1
  IN [m EXCEPT !.dom = [d2 EXCEPT !.inputValue = ToText(m.state.value)],
               !.renderCount = @ + 1,
               !.passFirst = first,
               !.passState = m.state,
               !.threw = FALSE]

\* a setter that stores the value and leaves the field as it is
SetValue03Store(m, v) ==
  [m EXCEPT !.state = [m.state EXCEPT !.value = v], !.threw = FALSE]

\* set value(value): store, then this[render]()
SetValue03(m, v) ==
  Render03([m EXCEPT !.state = [m.state EXCEPT !.value = v]])

ConnectedCallback03(m) == Render03(m)

\* ------------------------------------------------------------------------
\* ReactiveMixin
\* ------------------------------------------------------------------------

\* setState(changes): merge; a merge that changes no field is a no-op;
\* otherwise the new snapshot replaces the current one, the changed fields
\* are logged and, on an attached instance, a pass is scheduled unless one is
\* pending already. Before the first attach the merge waits for the first
\* pass; after detachment an update is a no-op.
SetState(m, changes) ==
  LET next == Merge(m.state, changes)
      diff == FieldsChanged(m.state, next)
  IN IF lifecycle = "detached" \/ diff = {}
     THEN [m EXCEPT !.threw = FALSE]
     ELSE [m EXCEPT !.state = next,
                    !.changed = @ \cup diff,
                    !.renderScheduled = @ \/ lifecycle = "attached",
                    !.threw = FALSE]

\* ------------------------------------------------------------------------
\* 4/index.html: the reactive spin box
\* ------------------------------------------------------------------------

\* a setter that writes the snapshot itself instead of calling setState
SetValue04Direct(m, v) ==
  [m EXCEPT !.state = [m.state EXCEPT !.value = v], !.threw = FALSE]

\* a setter that asks for a render whatever the merge did
SetValue04Forced(m, v) ==
  [SetState(m, [value |-> v]) EXCEPT !.changed = @ \cup {"value"},
                                     !.renderScheduled = TRUE]

\* set value(value): this[setState]({ value })
SetValue04(m, v) == SetState(m, [value |-> v])

\* a render that writes the field on the first pass only
Render04FirstOnly(d, st, ch, first) ==
  LET d1 == ShadowTemplateRender(d)
      d2 == IF first THEN WireListeners(d1) ELSE d1
  IN IF "value" \in ch /\ first
     THEN [d2 EXCEPT !.inputValue = ToText(st.value)]
     ELSE d2

\* [render](changed)
Render04(d, st, ch, first) ==
  LET d1 == ShadowTemplateRender(d)
      d2 == IF first THEN WireListeners(d1) ELSE d1
  IN IF "value" \in ch
     THEN [d2 EXCEPT !.inputValue = ToText(st.value)]
     ELSE d2

\* ------------------------------------------------------------------------
\* 12/: the themed spin box
\* ------------------------------------------------------------------------

\* 12/SpinBox.js [render](changed): listeners on the first render, the
\* value written to the field when it changed
RenderSpinBox12(d, st, ch, first) ==
  LET d1 == ShadowTemplateRender(d)
      d2 == IF first THEN WireListeners(d1) ELSE d1
  IN IF "value" \in ch
     THEN [d2 EXCEPT !.inputValue = ToText(st.value)]
     ELSE d2

\* 12/SpinBox.js set value(value)
SetValue12(m, v) == SetState(m, [value |-> v])

\* a render that colours a negative value and never clears the colours
RenderCustomSticky(d, st, ch, first) ==
  LET d1 == RenderSpinBox12(d, st, ch, first)
      negative == LessThanZero(parseInt(st.value))
  IN IF "value" \in ch /\ negative
     THEN [d1 EXCEPT !.borderColor = "rgb(255, 0, 255)",
                     !.backgroundColor = "rgba(255, 0, 255, 0.1)"]
     ELSE d1

\* CustomSpinBox [render](changed)
RenderCustom(d, st, ch, first) ==
  LET d1 == RenderSpinBox12(d, st, ch, first)
      negative == LessThanZero(parseInt(st.value))
  IN IF "value" \in ch
     THEN [d1 EXCEPT
             !.borderColor = IF negative THEN "rgb(255, 0, 255)" ELSE "",
             !.backgroundColor =
               IF negative THEN "rgba(255, 0, 255, 0.1)" ELSE ""]
     ELSE d1

\* ------------------------------------------------------------------------
\* The members every variant has
\* ------------------------------------------------------------------------

\* get value()
GetValue(m) == m.state.value

\* set value(value)
SetValue(m, v) ==
  CASE variant = "handrolled" -> SetValue01(m, v)
    [] variant = "template" -> SetValue03(m, v)
    [] variant = "reactive" -> SetValue04(m, v)
    [] OTHER -> SetValue12(m, v)

\* a callback that forwards the attribute's string as it is
AttributeChangedCallbackRaw(m, newValue) == SetValue(m, Str(newValue))

\* attributeChangedCallback("value", old, newValue)
AttributeChangedCallback(m, newValue) == SetValue(m, parseInt(Str(newValue)))

\* the input listener: this.value = input.value (12/SpinBox.js coerces the
\* text to the numeric state)
InputListener(m) ==
  IF variant = "custom"
  THEN SetValue(m, ParseIntText(m.dom.inputValue))
  ELSE SetValue(m, Str(m.dom.inputValue))

\* a down listener copied from the up button
DownListenerUp(m) == SetValue(m, Plus(ToNumeric(GetValue(m)), 1))

\* the mousedown listener of the down button: this.value--
DownListener(m) == SetValue(m, Plus(ToNumeric(GetValue(m)), 0 - 1))

\* an up listener that restarts from 0 when the value is not a number:
\* this.value = (this.value || 0) + 1
UpListenerReset(m) ==
  LET v == ToNumeric(GetValue(m))
  IN SetValue(m, Plus(IF v.t = "num" THEN v ELSE Num(0), 1))

\* the mousedown listener of the up button: this.value++
UpListener(m) == SetValue(m, Plus(ToNumeric(GetValue(m)), 1))

\* an event reaches every listener attached for it
Dispatch(n, m0, m1, m2) == IF n = 0 THEN m0 ELSE IF n = 1 THEN m1 ELSE m2

\* ------------------------------------------------------------------------
\* Initial state: a constructed instance, not yet in a document
\* ------------------------------------------------------------------------

NoOp == [op |-> "none", arg |-> Num(0), before |-> Num(0)]

Init ==
  /\ variant \in Variants
  /\ lifecycle = "unattached"
  /\ state = InitialState(variant)
  /\ dom = NoDom
  /\ changed = IF Reactive THEN DOMAIN state ELSE {}
  /\ renderScheduled = FALSE
  /\ firstRender = "undefined"
  /\ rendering = FALSE
  /\ pc = "idle"
  /\ threw = FALSE
  /\ phase = "quiet"
  /\ opCount = 0
  /\ renderCount = 0
  /\ renderedCount = 0
  /\ passFirst = FALSE
  /\ passChanged = {}
  /\ passState = state
  /\ attaches = 0
  /\ turn = [n |-> 0, fields |-> {}, base |-> 0, plain |-> FALSE]
  /\ lastOp = NoOp

\* ------------------------------------------------------------------------
\* Turns of the host's event loop
\* ------------------------------------------------------------------------

\* a script statement can run: no pass is on the stack and the scheduled
\* pass of an earlier turn has run
ScriptReady ==
  /\ pc = "idle"
  /\ phase \in {"quiet", "script"}
  /\ opCount < MaxOps

\* a user event is dispatched in a turn of its own, on a displayed instance
UserReady ==
  /\ pc = "idle"
  /\ phase = "quiet"
  /\ opCount < MaxOps
  /\ lifecycle = "attached"
  /\ dom.shadowRoot

\* the field an update to v changes
Diff(v) == IF v # state.value THEN {"value"} ELSE {}

\* the turn's bookkeeping after an operation: k updates that change the
\* fields f, or a lifecycle callback
TurnAfter(k, f, isLifecycle) ==
  IF phase = "quiet"
  THEN [n |-> k, fields |-> f, base |-> renderCount,
        plain |-> lifecycle = "attached" /\ ~isLifecycle]
  ELSE [n |-> turn.n + k, fields |-> turn.fields \cup f, base |-> turn.base,
        plain |-> turn.plain /\ ~isLifecycle]

\* ------------------------------------------------------------------------
\* Script operations
\* ------------------------------------------------------------------------

\* element.value = v
WriteValue(v) ==
  /\ ScriptReady
  /\ Install(SetValue(Cur, v))
  /\ phase' = "script"
  /\ opCount' = opCount + 1
  /\ turn' = TurnAfter(1, Diff(v), FALSE)
  /\ lastOp' = [op |-> "write", arg |-> v, before |-> state.value]
  /\ UNCHANGED <<variant, lifecycle, firstRender, rendering, pc, renderedCount,
                 attaches>>

\* element.setAttribute("value", s)
SetAttribute(s) ==
  /\ ScriptReady
  /\ Install(AttributeChangedCallback(Cur, s))
  /\ phase' = "script"
  /\ opCount' = opCount + 1
  /\ turn' = TurnAfter(1, Diff(parseInt(Str(s))), FALSE)
  /\ lastOp' = [op |-> "attr", arg |-> Str(s), before |-> state.value]
  /\ UNCHANGED <<variant, lifecycle, firstRender, rendering, pc, renderedCount,
                 attaches>>

\* a renderChanges that leaves the rendering flag alone
RenderChangesUnflagged ==
  LET first == IF firstRender = "undefined" THEN "true" ELSE firstRender
      runs == first = "true" \/ changed # {}
  IN /\ firstRender' = first
     /\ rendering' = rendering
     /\ pc' = IF runs THEN "render" ELSE pc

\* ReactiveMixin's renderChanges: a pass starts on the first call and
\* whenever fields changed since the last pass
RenderChanges ==
  LET first == IF firstRender = "undefined" THEN "true" ELSE firstRender
      runs == first = "true" \/ changed # {}
  IN /\ firstRender' = first
     /\ rendering' = (runs \/ rendering)
     /\ pc' = IF runs THEN "render" ELSE pc

\* the instance is inserted into a document: connectedCallback
Attach ==
  /\ ScriptReady
  /\ lifecycle # "attached"
  /\ lifecycle' = "attached"
  /\ attaches' = attaches + 1
  /\ IF Reactive
     THEN /\ RenderChanges
          /\ UNCHANGED <<state, dom, changed, renderScheduled, renderCount,
                         passFirst, passChanged, passState>>
          /\ threw' = FALSE
     ELSE /\ Install(IF variant = "handrolled"
                     THEN ConnectedCallback01(Cur)
                     ELSE ConnectedCallback03(Cur))
          /\ UNCHANGED <<firstRender, rendering, pc>>
  /\ phase' = "script"
  /\ opCount' = opCount + 1
  /\ turn' = TurnAfter(0, {}, TRUE)
  /\ lastOp' = [op |-> "attach", arg |-> Num(0), before |-> state.value]
  /\ UNCHANGED <<variant, renderedCount>>

\* the instance is removed from its document; no class defines
\* disconnectedCallback
Detach ==
  /\ ScriptReady
  /\ lifecycle = "attached"
  /\ lifecycle' = "detached"
  /\ phase' = "script"
  /\ opCount' = opCount + 1
  /\ threw' = FALSE
  /\ turn' = TurnAfter(0, {}, TRUE)
  /\ lastOp' = [op |-> "detach", arg |-> Num(0), before |-> state.value]
  /\ UNCHANGED <<variant, state, dom, changed, renderScheduled, firstRender,
                 rendering, pc, renderCount, renderedCount, passFirst,
                 passChanged, passState, attaches>>

\* the script returns to the event loop
Yield ==
  /\ pc = "idle"
  /\ phase = "script"
  /\ phase' = IF renderScheduled THEN "drain" ELSE "quiet"
  /\ UNCHANGED <<variant, lifecycle, state, dom, changed, renderScheduled,
                 firstRender, rendering, pc, threw, opCount, renderCount,
                 renderedCount, passFirst, passChanged, passState, attaches,
                 turn, lastOp>>

\* ------------------------------------------------------------------------
\* The render pass of ReactiveMixin
\* ------------------------------------------------------------------------

\* the pass scheduled by setState runs when the turn has ended
RunScheduledRender ==
  /\ pc = "idle"
  /\ phase = "drain"
  /\ renderScheduled
  /\ renderScheduled' = FALSE
  /\ RenderChanges
  /\ phase' = IF pc' = "render" THEN "drain" ELSE "quiet"
  /\ UNCHANGED <<variant, lifecycle, state, dom, changed, threw, opCount,
                 renderCount, renderedCount, passFirst, passChanged,
                 passState, attaches, turn, lastOp>>

\* this[render](changed) on the current snapshot and the logged changes
RenderPass(d, st, ch, first) ==
  IF variant = "custom"
  THEN RenderCustom(d, st, ch, first)
  ELSE Render04(d, st, ch, first)

\* a pass that calls the rendered hook before it has finished
RenderHookInside ==
  /\ pc = "render"
  /\ dom' = RenderPass(dom, state, changed, firstRender = "true")
  /\ renderCount' = renderCount + 1
  /\ passFirst' = (firstRender = "true")
  /\ passChanged' = changed
  /\ passState' = state
  /\ changed' = {}
  /\ rendering' = FALSE
  /\ pc' = "rendered"
  /\ renderedCount' = renderedCount + 1
  /\ UNCHANGED <<variant, lifecycle, state, renderScheduled, firstRender,
                 threw, phase, opCount, attaches, turn,
                 lastOp>>

\* the pass: this[render](changed), then the change log is cleared
Render ==
  /\ pc = "render"
  /\ dom' = RenderPass(dom, state, changed, firstRender = "true")
  /\ renderCount' = renderCount + 1
  /\ passFirst' = (firstRender = "true")
  /\ passChanged' = changed
  /\ passState' = state
  /\ changed' = {}
  /\ rendering' = FALSE
  /\ pc' = "rendered"
  /\ UNCHANGED <<variant, lifecycle, state, renderScheduled, firstRender,
                 threw, phase, opCount, renderedCount, attaches, turn,
                 lastOp>>

\* this[rendered](changed), after the pass
Rendered ==
  /\ pc = "rendered"
  /\ renderedCount' = renderedCount + 1
  /\ firstRender' = "false"
  /\ pc' = "idle"
  /\ phase' = IF phase = "drain" THEN "quiet" ELSE phase
  /\ UNCHANGED <<variant, lifecycle, state, dom, changed, renderScheduled,
                 rendering, threw, opCount, renderCount, passFirst,
                 passChanged, passState, attaches, turn, lastOp>>

\* ------------------------------------------------------------------------
\* User events
\* ------------------------------------------------------------------------

AfterEvent(m, v, name, arg) ==
  /\ Install(m)
  /\ phase' = IF m.renderScheduled THEN "drain" ELSE "quiet"
  /\ opCount' = opCount + 1
  /\ turn' = [n |-> 1, fields |-> Diff(v), base |-> renderCount,
              plain |-> TRUE]
  /\ lastOp' = [op |-> name, arg |-> arg, before |-> state.value]
  /\ UNCHANGED <<variant, lifecycle, firstRender, rendering, pc, renderedCount,
                 attaches>>

\* the user edits the field: the host stores the text, then fires "input"
InputEdit(text) ==
  /\ UserReady
  /\ LET m0 == [Cur EXCEPT !.dom = [dom EXCEPT !.inputValue = text],
                           !.threw = FALSE]
         m1 == InputListener(m0)
     IN AfterEvent(Dispatch(dom.onInput, m0, m1, InputListener(m1)),
                   m1.state.value, "edit", Str(text))

\* the user presses the down button
DownPress ==
  /\ UserReady
  /\ LET m0 == [Cur EXCEPT !.threw = FALSE]
         m1 == DownListener(m0)
     IN AfterEvent(Dispatch(dom.onDown, m0, m1, DownListener(m1)),
                   Plus(ToNumeric(state.value), 0 - 1), "down", Num(0))

\* the user presses the up button
UpPress ==
  /\ UserReady
  /\ LET m0 == [Cur EXCEPT !.threw = FALSE]
         m1 == UpListener(m0)
     IN AfterEvent(Dispatch(dom.onUp, m0, m1, UpListener(m1)),
                   Plus(ToNumeric(state.value), 1), "up", Num(0))

\* ------------------------------------------------------------------------
\* Specification
\* ------------------------------------------------------------------------

Next ==
  \/ \E v \in WriteVals : WriteValue(v)
  \/ \E s \in AttrTexts : SetAttribute(s)
  \/ Attach
  \/ Detach
  \/ Yield
  \/ RunScheduledRender
  \/ Render
  \/ Rendered
  \/ \E text \in EditTexts : InputEdit(text)
  \/ DownPress
  \/ UpPress

Spec == Init /\ [][Next]_vars

\* ------------------------------------------------------------------------
\* Properties
\* ------------------------------------------------------------------------

Quiet == phase = "quiet"

TurnPasses == renderCount - turn.base

FieldShowsValue == dom.inputValue = ToText(state.value)

Idempotence ==
  [][(/\ Reactive
      /\ opCount' = opCount + 1
      /\ \/ lastOp'.op = "write" /\ lastOp'.arg = state.value
         \/ lastOp'.op = "attr" /\ parseInt(lastOp'.arg) = state.value)
       => /\ state' = state
          /\ changed' = changed
          /\ renderScheduled' = renderScheduled
          /\ renderCount' = renderCount
          /\ pc' = pc]_vars

\* a redundant write has been made on an attached reactive instance that had
\* nothing pending, and the turn has ended without a pass
IdempotenceWitness ==
  /\ variant = "reactive"
  /\ lifecycle = "attached"
  /\ Quiet
  /\ lastOp.op = "write"
  /\ lastOp.arg = lastOp.before
  /\ turn.plain
  /\ turn.n = 1
  /\ TurnPasses = 0

\* C3 (first-render flag): the first render pass of an instance sees the
\* first-render flag true, every later pass sees it false.
FirstRenderFlag ==
  (variant # "handrolled" /\ renderCount >= 1)
    => (passFirst <=> renderCount = 1)

\* a later pass has run
FirstRenderFlagWitness ==
  /\ variant # "handrolled"
  /\ renderCount >= 2
  /\ ~passFirst
  /\ attaches >= 1

\* C4 (template reuse): the template is cloned into a shadow root at most
\* once and each of the three listeners is attached at most once, exactly
\* once as soon as the root exists.
TemplateReuse ==
  /\ dom.clones <= 1
  /\ dom.onInput <= 1
  /\ dom.onDown <= 1
  /\ dom.onUp <= 1
  /\ dom.shadowRoot
       => dom.clones = 1 /\ dom.onInput = 1 /\ dom.onDown = 1 /\ dom.onUp = 1

\* the instance is attached for the second time, after a value write
TemplateReuseWitness ==
  /\ attaches >= 2
  /\ lifecycle = "attached"
  /\ lastOp.op = "attach"
  /\ state.value # Num(0)
  /\ dom.onInput = 1

\* C5 (increment/decrement): on an attached spin box whose value is an
\* integer v, one press of the down button gives value v - 1 and the field
\* the text of v - 1, one press of the up button gives v + 1 and its text.
StepByOne ==
  (Quiet /\ lastOp.op \in {"down", "up"} /\ lastOp.before.t = "num")
    => LET v == lastOp.before.n
           w == IF lastOp.op = "down" THEN v - 1 ELSE v + 1
       IN /\ state.value = Num(w)
          /\ dom.inputValue = ToText(Num(w))
          /\ (v = 0 /\ lastOp.op = "down") => dom.inputValue = <<"-", "1">>
          /\ (v = 0 /\ lastOp.op = "up") => dom.inputValue = <<"1">>

\* the down button was pressed at value 0
StepByOneWitness ==
  /\ Quiet
  /\ lastOp.op = "down"
  /\ lastOp.before = Num(0)
  /\ state.value = Num(0 - 1)

\* C6 (attribute propagation): after the value attribute of an attached
\* instance of 1/, 3/ or 4/ changed to s, the value property reads
\* parseInt(s) and, the turn over, the field shows that value's text: 5 and
\* "5" for "5", NaN and "NaN" for "abc".
AttributePropagation ==
  (variant # "custom" /\ lastOp.op = "attr" /\ lifecycle = "attached"
     /\ pc = "idle")
    => /\ state.value = parseInt(lastOp.arg)
       /\ lastOp.arg.s = <<"5">> => state.value = Num(5)
       /\ lastOp.arg.s = <<"a", "b", "c">> => state.value = NaN
       /\ Quiet
            => /\ FieldShowsValue
               /\ lastOp.arg.s = <<"5">> => dom.inputValue = <<"5">>
               /\ lastOp.arg.s = <<"a", "b", "c">>
                    => dom.inputValue = <<"N", "a", "N">>

\* the attribute was set to "abc" and the field shows NaN
AttributePropagationWitness ==
  /\ lifecycle = "attached"
  /\ Quiet
  /\ lastOp.op = "attr"
  /\ lastOp.arg.s = <<"a", "b", "c">>
  /\ state.value = NaN
  /\ dom.inputValue = <<"N", "a", "N">>
  /\ variant = "reactive"

\* C7 (value domain): in every reachable state the value property is an
\* integer or NaN, also after an edit of the input field.
ValueDomain == state.value.t \in {"num", "nan"}

Styled ==
  /\ dom.borderColor = "rgb(255, 0, 255)"
  /\ dom.backgroundColor = "rgba(255, 0, 255, 0.1)"

Unstyled == dom.borderColor = "" /\ dom.backgroundColor = ""

\* C8 (themed variant): when a render pass of the custom spin box has
\* completed, the magenta border and background are set if the value is
\* negative and cleared otherwise, and a value that went from negative to
\* non-negative is reported as changed to the pass that clears them.
ThemedStyle ==
  (variant = "custom" /\ pc = "rendered")
    => /\ IF LessThanZero(ToNumeric(state.value)) THEN Styled ELSE Unstyled
       /\ (/\ lastOp.op \in {"write", "attr", "edit", "up"}
           /\ LessThanZero(ToNumeric(lastOp.before))
           /\ ~LessThanZero(ToNumeric(state.value)))
            => "value" \in passChanged

\* the value went from -3 to 3 and the pass for it has cleared the colours
ThemedStyleWitness ==
  /\ variant = "custom"
  /\ pc = "rendered"
  /\ lastOp.op = "write"
  /\ lastOp.before = Num(0 - 3)
  /\ state.value = Num(3)
  /\ "value" \in passChanged
  /\ Unstyled
  /\ renderCount >= 3

DetachmentTerminal ==
  [][(lifecycle = "detached" /\ lifecycle' = "detached"
        /\ opCount' = opCount + 1)
       => /\ state' = state
          /\ dom' = dom
          /\ renderCount' = renderCount]_vars

\* C11, amended: in 1/ and 3/ detachment ends nothing: a value write or an
\* attribute change on a detached instance stores the value and writes it
\* to the field without an error, as on an attached one.
DetachedUpdatesApply ==
  (/\ variant \in {"handrolled", "template"}
   /\ lifecycle = "detached"
   /\ lastOp.op \in {"write", "attr"})
    => /\ state.value = IF lastOp.op = "write" THEN lastOp.arg
                        ELSE parseInt(lastOp.arg)
       /\ FieldShowsValue
       /\ ~threw

\* a detached hand-rolled instance took a write that changed its value
DetachedUpdatesApplyWitness ==
  /\ variant = "handrolled"
  /\ lifecycle = "detached"
  /\ lastOp.op = "write"
  /\ lastOp.arg # lastOp.before
  /\ state.value = lastOp.arg
  /\ FieldShowsValue

\* C12 (NaN is absorbing): a press of the up or the down button on an
\* attached instance of 1/, 3/ or 4/ whose value is NaN leaves the value NaN
\* and the field showing "NaN", and raises no error.
NaNAbsorbing ==
  (/\ variant # "custom"
   /\ Quiet
   /\ lastOp.op \in {"down", "up"}
   /\ lastOp.before = NaN)
    => /\ state.value = NaN
       /\ dom.inputValue = <<"N", "a", "N">>
       /\ ~threw

\* the up button was pressed on a reactive spin box at NaN, as the fourth
\* operation or later
NaNAbsorbingWitness ==
  /\ variant = "reactive"
  /\ Quiet
  /\ lastOp.op = "up"
  /\ lastOp.before = NaN
  /\ state.value = NaN
  /\ dom.inputValue = <<"N", "a", "N">>
  /\ opCount >= 4

\* C13 (default state): a fresh instance reads value 0; attached without
\* any update it still reads 0 and shows "0" once its first render pass has
\* run; the state of the themed variant has the value field of the layer
\* below (default 0) next to its own buttonPartType.
DefaultStateLayers ==
  /\ DOMAIN state =
       IF variant = "custom" THEN {"value", "buttonPartType"} ELSE {"value"}
  /\ variant = "custom" => state.buttonPartType = Ref(<<"CustomButton">>)
  /\ opCount = 0 => state.value = Num(0)
  /\ (opCount = 1 /\ lastOp.op = "attach" /\ pc = "idle")
       => /\ state.value = Num(0)
          /\ dom.inputValue = <<"0">>
          /\ variant # "handrolled" => renderCount = 1 /\ passFirst

\* a themed spin box was attached and its first pass has shown "0"
DefaultStateLayersWitness ==
  /\ variant = "custom"
  /\ opCount = 1
  /\ lastOp.op = "attach"
  /\ pc = "idle"
  /\ renderCount = 1
  /\ state.value = Num(0)
  /\ dom.inputValue = <<"0">>

\* C14 (rendered hook ordering): ReactiveMixin invokes the rendered hook
\* once for every completed render pass, as the step that follows the pass,
\* never while the pass is running and never without a pass before it.
RenderedHookOrdering ==
  /\ [](renderedCount =
          IF Reactive
          THEN renderCount - (IF pc = "rendered" THEN 1 ELSE 0)
          ELSE 0)
  /\ [][renderedCount' # renderedCount
          => /\ pc = "rendered"
             /\ ~rendering
             /\ renderedCount' = renderedCount + 1]_vars
  /\ [][pc = "rendered" => renderedCount' = renderedCount + 1]_vars

\* the hook has run for the second pass of a reactive instance
RenderedHookOrderingWitness ==
  /\ Reactive
  /\ pc = "idle"
  /\ renderCount = 2
  /\ renderedCount = 2


\* C15 (lifecycle safety): in the hand-rolled, template and reactive
\* variants a write of the value property or a change of the value attribute
\* does not fail in any lifecycle state, the value is stored, and the field
\* shows it once the instance is attached and no pass is outstanding.
LifecycleSafety ==
  (variant \in {"handrolled", "template", "reactive"}
     /\ lastOp.op \in {"write", "attr"})
    => /\ ~threw
       /\ (~(Reactive /\ lifecycle = "detached"))
            => state.value = (IF lastOp.op = "write" THEN lastOp.arg
                              ELSE parseInt(lastOp.arg))
       /\ (lifecycle = "attached" /\ Quiet) => FieldShowsValue


\* C16 (view/state consistency): in the hand-rolled, template and reactive
\* variants, whenever the instance is attached and no render pass is pending
\* or running, the text of the input field is the text form of the current
\* value, whatever edits, button presses, attribute changes and property
\* writes came before; [render] writes the field exactly when the change set
\* it is given holds value, whatever the state it is applied to.
ViewStateConsistency ==
  /\ (/\ variant # "custom"
      /\ lifecycle = "attached"
      /\ pc = "idle"
      /\ ~renderScheduled)
       => FieldShowsValue
  /\ \A ch \in SUBSET (DOMAIN state), first \in BOOLEAN :
       LET d == Render04(dom, state, ch, first)
       IN d.inputValue = IF "value" \in ch THEN ToText(state.value)
                         ELSE dom.inputValue

\* the reactive field follows a button press made on an edited value, after
\* a pass that skipped nothing and several earlier passes
ViewStateConsistencyWitness ==
  /\ variant = "reactive"
  /\ lifecycle = "attached"
  /\ Quiet
  /\ pc = "idle"
  /\ ~renderScheduled
  /\ lastOp.op = "down"
  /\ lastOp.before = Str(<<"5">>)
  /\ state.value = Num(4)
  /\ dom.inputValue = <<"4">>
  /\ renderCount >= 3

====
